---- MODULE Spec2Model ----
(***************************************************************************)
(* Model of the invoice extraction service: the three extraction endpoints *)
(* (app/api/v1/endpoints.py), the Redis result cache                       *)
(* (app/services/cache_service.py), and the AI service with its circuit    *)
(* breaker and tenacity retry decorator (app/services/ai_service.py).      *)
(*                                                                         *)
(* Requests are asyncio tasks on one event loop: a request runs without    *)
(* interruption between two suspension points.  The suspension points of   *)
(* the code are the awaits on the cache (get, setex), the upload's         *)
(* read/seek, and the backoff sleep of the retry decorator; the OCR call   *)
(* and model.generate_content are synchronous.  One action of the model is *)
(* one such uninterrupted run.                                             *)
(***************************************************************************)
EXTENDS Integers, Sequences, FiniteSets, TLC

VARIABLES
    pc,                 \* per request: idle, get, proc, sleep, set, done
    inp,                \* per request: endpoint, payload, declared content type
    attempt,            \* per request: tenacity's attempt_number, the attempts made so far
    sleepLeft,          \* per request: time left of its backoff sleep
    data,               \* per request: response_data awaiting the cache store
    result,             \* per request: what the caller receives
    last,               \* per request: outcome of its latest model.generate_content call
    waits,              \* per request: every backoff wait slept
    ocrCalls,           \* per request: number of extract_text invocations
    tempFile,           \* per request: none, exists, removed
    recorded,           \* per request: number of _on_success/_on_failure calls it caused
    prior,              \* per request: body served for the same bytes before it started
    admitted,           \* per request: breaker state its call() found on entry, "" before
    recordedIn,         \* per request: breaker state when its failure was recorded, "" before
    cache,              \* Redis: key -> stored JSON value
    served,             \* per content: body of the latest successful request, until expiry
    state,              \* CircuitBreaker.state
    failure_count,      \* CircuitBreaker.failure_count
    elapsed,            \* datetime.now() - CircuitBreaker.last_failure_time, NoTime when None
    failure_threshold,  \* CircuitBreaker.failure_threshold
    timeout,            \* CircuitBreaker.timeout
    backend,            \* Redis as the service finds it: up or down
    cacheCall,          \* a call of a CacheService method made on its own: inputs and outcome
    pureCall,           \* a call of a pure function of the AI service: input and outcome
    consec              \* failing breaker calls since construction, while the breaker was used
                        \* sequentially and every call failed; Void afterwards

reqVars == <<pc, inp, attempt, sleepLeft, data, result, last, waits, ocrCalls,
             tempFile, recorded, prior, admitted, recordedIn>>
cbVars == <<state, failure_count, elapsed>>
cbParams == <<failure_threshold, timeout>>
vars == <<reqVars, cache, served, backend, cacheCall, pureCall, cbVars, cbParams, consec>>

----------------------------------------------------------------------------
(* Bounds of the model.  Time is kept as durations (time left of a sleep,   *)
(* time since the last failure) rather than as clock readings.             *)

MaxFailures == 3
TimeStep == 4
MaxThreshold == 2

(* Two request tasks run concurrently; a finished one is reused for the next *)
(* request.                                                                 *)
Reqs == {1, 2}

(* Constructor arguments of the breaker that the model explores. *)
Thresholds == 1..MaxThreshold
Timeouts == {TimeStep}

----------------------------------------------------------------------------
(* Program constants *)

MAX_FILE_SIZE == 10485760
StopAfterAttempt == 3
WaitMultiplier == 1
WaitMin == 4
WaitMax == 10

NoTime == -1
Void == -1

Max(a, b) == IF a >= b THEN a ELSE b
Min(a, b) == IF a <= b THEN a ELSE b

----------------------------------------------------------------------------
(* Data *)

Endpoints == {"extract", "simple", "n8n"}
Payloads == {"b1", "big", "undecodable", "missing"}
Ctypes == {"application/pdf", "text/plain", "multipart/form-data"}
Exts == {"pdf", "txt"}
SUPPORTED_FILE_TYPES == {"application/pdf", "image/png", "image/jpeg", "image/jpg"}

(* len(file_content) *)
FileSize(p) == IF p = "big" THEN MAX_FILE_SIZE + 1 ELSE 1024

(* SHA-256 hex digest of the bytes: distinct for distinct contents. *)
calculate_file_hash(p) ==
    CASE p = "b1" -> "h1"
      [] p = "big" -> "h2"
      [] OTHER -> "h3"

(* Keys the cache can come to hold: those of uploads that pass the checks. *)
Keys == {"h1"}

(* A JSON object / dict with the fields that decide validation and           *)
(* serialisation: invoice_number (absent when a required field is missing)   *)
(* and invoice_date (null, an ISO string, or a datetime.date object).        *)
NoValue == [inv |-> "none", date |-> "none"]
DictA == [inv |-> "INV-1", date |-> "null"]
DictB == [inv |-> "INV-2", date |-> "null"]
DictD == [inv |-> "INV-1", date |-> "iso"]
DictX == [inv |-> "absent", date |-> "null"]
Dicts == {DictA, DictB, DictD, DictX}

SchemaValid_any(d) == TRUE

\* Pydantic validation of a dict by InvoiceData / ExtractionResponse.
SchemaValid(d) == d.inv \notin {"absent", "none"}
Validated(d) == [inv |-> d.inv, date |-> IF d.date = "iso" THEN "obj" ELSE d.date]

(* BaseModel.model_dump() in python mode keeps datetime.date objects. *)
model_dump(rec) == rec

(* json.dumps raises TypeError on a datetime.date. *)
JsonSerializable(d) == d.date # "obj"

(* The JSON body FastAPI sends for a response model: dates as ISO strings. *)
ResponseBody(rec) == [inv |-> rec.inv, date |-> IF rec.date = "obj" THEN "iso" ELSE rec.date]

(* Texts the AI dependency can return. "blank" is whitespace only. *)
TextOf(d) == [fmt |-> "json", obj |-> d]
Garbage == [fmt |-> "garbage", obj |-> NoValue]
Blank == [fmt |-> "blank", obj |-> NoValue]
AiTexts == {TextOf(d) : d \in Dicts} \cup {Garbage, Blank}

(* Error signals of model.generate_content. *)
ErrSignals == {"503", "invalid api key"}

(* The dependency returns a response without text: _call_gemini_api raises  *)
(* AiServiceError("Empty response from Gemini API") inside its own try, and *)
(* its except clause handles that like any other failure of the call.       *)
EmptyResponse == "empty response from gemini api"

(* HTTP status of each error code. *)
status_code(code) ==
    CASE code \in {"INVALID_FILE_TYPE", "FILE_PROCESSING_ERROR"} -> 400
      [] code = "CIRCUIT_BREAKER_OPEN" -> 503
      [] OTHER -> 500

NoResult == [kind |-> "none", code |-> "", body |-> NoValue, cause |-> "", detail |-> ""]
Ok(body) == [kind |-> "ok", code |-> "", body |-> body, cause |-> "", detail |-> ""]
Err(code, cause) ==
    [kind |-> "err", code |-> code, body |-> NoValue, cause |-> cause, detail |-> ""]

(* An error object whose optional detail string is set. *)
ErrDetail(code, cause, detail) == [Err(code, cause) EXCEPT !.detail = detail]

NoInput == [ep |-> "none", payload |-> "none", ctype |-> "none"]

----------------------------------------------------------------------------
(* Circuit breaker (CircuitBreaker in ai_service.py) *)

_should_attempt_reset_never(el) == FALSE

_should_attempt_reset_ge(el) == el = NoTime \/ el >= timeout

(* _should_attempt_reset: el is datetime.now() - last_failure_time; strictly *)
(* more than timeout must have passed since the last failure.                *)
_should_attempt_reset(el) == el = NoTime \/ el > timeout

(* The state call() runs the wrapped function in, "REJECT" when it fails fast. *)
Gate(st, el) ==
    IF st = "OPEN"
    THEN IF _should_attempt_reset(el) THEN "HALF_OPEN" ELSE "REJECT"
    ELSE st

elapsed_after_rejected_call_restart(el) == 0

(* call() raises CircuitBreakerOpenError before its try block: _on_failure   *)
(* does not run, last_failure_time stays, and so does the time passed since. *)
elapsed_after_rejected_call(el) == el

_on_success_count_keep(cnt) == cnt

(* _on_success: failure_count after a successful call. *)
_on_success_count(cnt) == 0

_on_failure_state_any(st, cnt) == "OPEN"

_on_failure_state_gt(st, cnt) == IF cnt + 1 > failure_threshold THEN "OPEN" ELSE st

_on_failure_state_eq(st, cnt) == IF cnt + 1 = failure_threshold THEN "OPEN" ELSE st

(* _on_failure: the state after failure_count was incremented from cnt. *)
_on_failure_state(st, cnt) == IF cnt + 1 >= failure_threshold THEN "OPEN" ELSE st

----------------------------------------------------------------------------
(* Retry decorator of _call_gemini_api (tenacity) *)

Pow2(n) == IF n <= 0 THEN 1 ELSE IF n = 1 THEN 2 ELSE IF n = 2 THEN 4 ELSE 8

wait_exponential_unclamped(n) == Min(WaitMultiplier * Pow2(n - 1), WaitMax)

(* wait_exponential(multiplier=1, min=4, max=10) after attempt number n:     *)
(* max(min, min(multiplier * 2^(n-1), max)).                                 *)
wait_exponential(n) == Max(WaitMin, Min(WaitMultiplier * Pow2(n - 1), WaitMax))

(* Texts are sequences of one-character strings. *)
ascii_uppercase == <<"A", "B", "C", "D", "E", "F", "G", "H", "I", "J", "K", "L", "M",
                     "N", "O", "P", "Q", "R", "S", "T", "U", "V", "W", "X", "Y", "Z">>
ascii_lowercase == <<"a", "b", "c", "d", "e", "f", "g", "h", "i", "j", "k", "l", "m",
                     "n", "o", "p", "q", "r", "s", "t", "u", "v", "w", "x", "y", "z">>

(* str.lower() *)
lower(s) ==
    [i \in 1..Len(s) |->
        IF \E k \in 1..26 : ascii_uppercase[k] = s[i]
        THEN ascii_lowercase[CHOOSE k \in 1..26 : ascii_uppercase[k] = s[i]]
        ELSE s[i]]

(* Python's `sub in s` on strings: sub occurs in s as a contiguous run. *)
str_contains(s, sub) ==
    \E i \in 1..(Len(s) - Len(sub) + 1) : SubSeq(s, i, i + Len(sub) - 1) = sub

TransientIndicators ==
    { <<"5", "0", "3">>, <<"5", "0", "2">>, <<"5", "0", "4">>, <<"5", "0", "0">>,
      <<"4", "2", "9">>,
      <<"t", "i", "m", "e", "o", "u", "t">>,
      <<"c", "o", "n", "n", "e", "c", "t", "i", "o", "n">>,
      <<"n", "e", "t", "w", "o", "r", "k">>,
      <<"q", "u", "o", "t", "a", " ", "e", "x", "c", "e", "e", "d", "e", "d">> }

_is_transient_error_case_sensitive(error) ==
    \E indicator \in TransientIndicators : str_contains(error, indicator)

(* _is_transient_error: error is str(error), the text of the exception. *)
_is_transient_error(error) ==
    LET error_str == lower(error)
    IN \E indicator \in TransientIndicators : str_contains(error_str, indicator)

(* str(e) of the exceptions the model lets model.generate_content raise. *)
str(sig) ==
    CASE sig = "503" -> <<"5", "0", "3">>
      [] sig = "invalid api key" ->
            <<"i", "n", "v", "a", "l", "i", "d", " ", "a", "p", "i", " ", "k", "e", "y">>
      [] OTHER ->
            <<"E", "m", "p", "t", "y", " ", "r", "e", "s", "p", "o", "n", "s", "e", " ",
              "f", "r", "o", "m", " ", "G", "e", "m", "i", "n", "i", " ", "A", "P", "I">>

(* The exception _call_gemini_api raises for a failed attempt: always an     *)
(* AiServiceError, whose message says Transient or Permanent.                *)
RaisedKind(sig) == IF _is_transient_error(str(sig)) THEN "transient" ELSE "permanent"

(* retry=retry_if_exception_type((AiServiceError,)): every exception that    *)
(* _call_gemini_api raises is an AiServiceError, so every failure qualifies. *)
retry_if_exception_type(sig) == TRUE

stop_after_attempt_5(n) == n >= StopAfterAttempt + 2

stop_after_attempt_4(n) == n >= StopAfterAttempt + 1

(* stop=stop_after_attempt(3) *)
stop_after_attempt(n) == n >= StopAfterAttempt

----------------------------------------------------------------------------
(* Cache service (CacheService in cache_service.py) *)

(* A stored string that json.loads rejects. *)
Corrupt == [inv |-> "corrupt", date |-> "corrupt"]

(* What can go wrong with Redis during one method call: nothing, no         *)
(* connection (_get_client raises CacheError, or the command raises a       *)
(* connection error), or the command itself is answered with an error.      *)
CacheFaults == {"none", "connect", "command"}
FaultsOf(b) == IF b = "up" THEN {"none"} ELSE {"connect", "command"}

(* Outcome of a method body or of a method: the exception that leaves it    *)
(* ("" for none), the returned value (get), the returned flag (set, check)  *)
(* and the value stored under the key afterwards.                           *)
Outcome(e, v, f, st) == [exc |-> e, val |-> v, ok |-> f, store |-> st]

except_CacheError(exc) == exc = "CacheError"

except_RedisError(exc) == exc \in {"ConnectionError", "ResponseError"}

(* `except Exception as e`: every exception a method body raises is caught. *)
except_Exception(exc) == exc # ""

(* The try block of get. *)
get_try(fault, stored) ==
    CASE fault = "connect" -> Outcome("CacheError", NoValue, "", stored)
      [] fault = "command" -> Outcome("ResponseError", NoValue, "", stored)
      [] stored = NoValue -> Outcome("", NoValue, "", stored)
      [] stored = Corrupt -> Outcome("JSONDecodeError", NoValue, "", stored)
      [] OTHER -> Outcome("", stored, "", stored)

(* CacheService.get *)
CacheService_get(fault, stored) ==
    LET t == get_try(fault, stored)
    IN IF except_Exception(t.exc) THEN Outcome("", NoValue, "", stored) ELSE t

(* The try block of set: the client, json.dumps, then setex. *)
set_try(fault, stored, value) ==
    CASE fault = "connect" -> Outcome("CacheError", NoValue, "", stored)
      [] ~JsonSerializable(value) -> Outcome("TypeError", NoValue, "", stored)
      [] fault = "command" -> Outcome("ResponseError", NoValue, "", stored)
      [] OTHER -> Outcome("", NoValue, "True", value)

(* CacheService.set *)
CacheService_set(fault, stored, value) ==
    LET t == set_try(fault, stored, value)
    IN IF except_Exception(t.exc) THEN Outcome("", NoValue, "False", stored) ELSE t

(* The try block of check. *)
check_try(fault, stored) ==
    CASE fault = "connect" -> Outcome("CacheError", NoValue, "", stored)
      [] fault = "command" -> Outcome("ResponseError", NoValue, "", stored)
      [] OTHER -> Outcome("", NoValue, IF stored # NoValue THEN "True" ELSE "False", stored)

(* CacheService.check *)
CacheService_check(fault, stored) ==
    LET t == check_try(fault, stored)
    IN IF except_Exception(t.exc) THEN Outcome("", NoValue, "False", stored) ELSE t

NoPure == [op |-> "none", arg |-> <<>>, out |-> FALSE]

NoCall == [op |-> "none", fault |-> "none", stored |-> NoValue, value |-> NoValue,
           out |-> Outcome("", NoValue, "", NoValue)]

----------------------------------------------------------------------------
(* Endpoint helpers (endpoints.py) *)

(* /extract detects the type from the filename when the transport type is    *)
(* multipart/form-data; the other endpoints use the declared type.           *)
ActualContentType(ep, ct, ext) ==
    IF ep = "extract" /\ ct = "multipart/form-data"
    THEN (IF ext = "pdf" THEN "application/pdf" ELSE ct)
    ELSE ct

InputCheck_size_first(ep, p, ct, ext) ==
    IF ep = "n8n" /\ p = "missing"
    THEN Err("FILE_PROCESSING_ERROR", "No file data provided")
    ELSE IF FileSize(p) > MAX_FILE_SIZE
    THEN Err("FILE_PROCESSING_ERROR",
             IF ep = "extract" THEN "File too large" ELSE "Invalid base64 data")
    ELSE IF ep \in {"extract", "simple"}
            /\ ActualContentType(ep, ct, ext) \notin SUPPORTED_FILE_TYPES
    THEN Err("INVALID_FILE_TYPE", "Invalid file type")
    ELSE IF ep \in {"simple", "n8n"} /\ p = "undecodable"
    THEN Err("FILE_PROCESSING_ERROR", "Invalid base64 data")
    ELSE NoResult

(* The checks before the cache lookup; NoResult when the upload passes. *)
InputCheck(ep, p, ct, ext) ==
    IF ep = "n8n" /\ p = "missing"
    THEN Err("FILE_PROCESSING_ERROR", "No file data provided")
    ELSE IF ep \in {"extract", "simple"}
            /\ ActualContentType(ep, ct, ext) \notin SUPPORTED_FILE_TYPES
    THEN Err("INVALID_FILE_TYPE", "Invalid file type")
    ELSE IF ep \in {"simple", "n8n"} /\ p = "undecodable"
    THEN Err("FILE_PROCESSING_ERROR", "Invalid base64 data")
    ELSE IF FileSize(p) > MAX_FILE_SIZE
    THEN Err("FILE_PROCESSING_ERROR",
             IF ep = "extract" THEN "File too large" ELSE "Invalid base64 data")
    ELSE NoResult

(* What FastAPI answers when the request does not fit the handler's          *)
(* parameters: status 422 and a body {"detail": [...]}, with no message     *)
(* field and no error code; no handler of main.py is registered for it.     *)
Unprocessable ==
    [kind |-> "unprocessable", code |-> "", body |-> NoValue, cause |-> "", detail |-> ""]

(* Validation of the request against the handler's parameters, before the  *)
(* handler runs: /extract requires the file part, /extract-simple the data  *)
(* field; every field of /extract-n8n's model is optional.                  *)
RequestValidation(ep, p) ==
    IF ep \in {"extract", "simple"} /\ p = "missing" THEN Unprocessable ELSE NoResult

(* The error codes of the exception classes and of the two generic handlers. *)
ErrorCodes == {"INVALID_FILE_TYPE", "OCR_ERROR", "AI_SERVICE_ERROR", "CACHE_ERROR",
               "FILE_PROCESSING_ERROR", "CIRCUIT_BREAKER_OPEN", "HTTP_ERROR",
               "INTERNAL_ERROR"}

(* Suffix of the temporary file. *)
Suffix(ep, ct) ==
    IF ep = "extract"
    THEN (IF ct = "application/pdf" THEN ".pdf" ELSE "")
    ELSE ".pdf"

SupportedExtensions == {".pdf", ".png", ".jpg", ".jpeg"}

ai_service_except_wrap_all(exc) == "AiServiceError"

(* The except clauses that end get_structured_data and extract_invoice_data: *)
(* CircuitBreakerOpenError and AiServiceError are re-raised as they are,     *)
(* every other exception becomes an AiServiceError ("Unexpected error").     *)
ai_service_except(exc) ==
    IF exc \in {"CircuitBreakerOpenError", "AiServiceError"} THEN exc ELSE "AiServiceError"

(* The exception classes the endpoints re-raise unchanged (the subclass      *)
(* CircuitBreakerOpenError matches AiServiceError); anything else leaves the *)
(* endpoint as OcrError("Failed to process file").                           *)
ReRaised == {"InvalidFileTypeError", "FileProcessingError", "OcrError",
             "AiServiceError", "CircuitBreakerOpenError"}
endpoint_except(exc) == IF exc \in ReRaised THEN exc ELSE "OcrError"

(* error_code of each exception class, as app_exception_handler reports it. *)
error_code(exc) ==
    CASE exc = "InvalidFileTypeError" -> "INVALID_FILE_TYPE"
      [] exc = "OcrError" -> "OCR_ERROR"
      [] exc = "AiServiceError" -> "AI_SERVICE_ERROR"
      [] exc = "CacheError" -> "CACHE_ERROR"
      [] exc = "FileProcessingError" -> "FILE_PROCESSING_ERROR"
      [] exc = "CircuitBreakerOpenError" -> "CIRCUIT_BREAKER_OPEN"
      [] OTHER -> "INTERNAL_ERROR"

(* Exceptions extract_text can end with on a file of a supported format:   *)
(* the OcrError of the OCR service, or any other exception.                 *)
OcrExceptions == {[cls |-> "OcrError", msg |-> "OCR processing failed"],
                  [cls |-> "RuntimeError", msg |-> "cannot open broken document"]}

(* What the caller gets when extract_text raises exc: a re-raised           *)
(* application exception is reported with its own message; any other        *)
(* exception becomes OcrError(message="Failed to process file",             *)
(* detail=str(e)).                                                           *)
ocr_failure_response(exc) ==
    IF exc.cls \in ReRaised
    THEN Err(error_code(exc.cls), exc.msg)
    ELSE ErrDetail(error_code(endpoint_except(exc.cls)), "Failed to process file", exc.msg)

(* What the caller gets when call() fails fast. *)
Rejected ==
    Err(error_code(endpoint_except(ai_service_except("CircuitBreakerOpenError"))),
        "AI Service is temporarily unavailable")

(* What the caller gets when the cached value is turned into a response. *)
HitResult(ep, v) ==
    IF SchemaValid(v) THEN Ok(ResponseBody(Validated(v)))
    ELSE IF ep = "extract" THEN Err("FILE_PROCESSING_ERROR", "Error reading uploaded file")
    ELSE Err("INTERNAL_ERROR", "Internal Server Error")

(* What the caller gets when cache_service.get raises: /extract awaits it   *)
(* inside the try that rewraps every exception, the other endpoints outside *)
(* any try.                                                                  *)
LookupRaised(ep) ==
    IF ep = "extract" THEN Err("FILE_PROCESSING_ERROR", "Error reading uploaded file")
    ELSE Err("CACHE_ERROR", "Redis connection failed")

(* What the caller gets when cache_service.set raises: CacheError is not    *)
(* among the re-raised classes, so `except Exception` wraps it.             *)
StoreRaised == Err("OCR_ERROR", "Failed to process file")

(* What the caller gets after the cache store. *)
MissResult(ep, d) ==
    IF ep = "n8n"
    THEN (IF SchemaValid(d) THEN Ok(ResponseBody(Validated(d)))
          ELSE Err("INTERNAL_ERROR", "Internal Server Error"))
    ELSE Ok(ResponseBody(d))

(* cache_data handed to cache_service.set *)
CacheData(ep, d) == IF ep = "n8n" THEN d ELSE model_dump(d)

----------------------------------------------------------------------------
Init ==
    /\ pc = [r \in Reqs |-> "idle"]
    /\ inp = [r \in Reqs |-> NoInput]
    /\ attempt = [r \in Reqs |-> 0]
    /\ sleepLeft = [r \in Reqs |-> 0]
    /\ data = [r \in Reqs |-> NoValue]
    /\ result = [r \in Reqs |-> NoResult]
    /\ last = [r \in Reqs |-> ""]
    /\ waits = [r \in Reqs |-> <<>>]
    /\ ocrCalls = [r \in Reqs |-> 0]
    /\ tempFile = [r \in Reqs |-> "none"]
    /\ recorded = [r \in Reqs |-> 0]
    /\ prior = [r \in Reqs |-> NoValue]
    /\ admitted = [r \in Reqs |-> ""]
    /\ recordedIn = [r \in Reqs |-> ""]
    /\ cache = [k \in Keys |-> NoValue]
    /\ backend = "up"
    /\ cacheCall = NoCall
    /\ pureCall = NoPure
    /\ served = [p \in {"b1"} |-> NoValue]
    /\ state = "CLOSED"
    /\ failure_count = 0
    /\ elapsed = NoTime
    /\ failure_threshold \in Thresholds
    /\ timeout \in Timeouts
    /\ consec = 0

(* A finished request is delivered before anything else happens: Reset       *)
(* touches nothing but the finished request's own record, so it commutes     *)
(* with every other step.                                                    *)
NoneDone == \A q \in Reqs : pc[q] # "done"

(* The request ends: the response or the error object goes to the caller. *)
Finish(r, res, temp) ==
    /\ pc' = [pc EXCEPT ![r] = "done"]
    /\ sleepLeft' = [sleepLeft EXCEPT ![r] = 0]
    /\ data' = [data EXCEPT ![r] = NoValue]
    /\ result' = [result EXCEPT ![r] = res]
    /\ tempFile' = [tempFile EXCEPT ![r] = temp]
    /\ served' = IF res.kind = "ok"
                 THEN [served EXCEPT ![inp[r].payload] = res.body]
                 ELSE served

(* Handler entry up to the await on cache_service.get. *)
Start(r) ==
    /\ pc[r] = "idle"
    /\ NoneDone
    /\ \E ep \in Endpoints, p \in Payloads, ct \in Ctypes, ext \in Exts :
         /\ ep = "extract" => p # "undecodable"
         /\ ep # "extract" => ext = "pdf"
         /\ LET val == RequestValidation(ep, p)
                chk == IF val # NoResult THEN val ELSE InputCheck(ep, p, ct, ext) IN
            IF chk # NoResult
            THEN /\ pc' = [pc EXCEPT ![r] = "done"]
                 /\ result' = [result EXCEPT ![r] = chk]
                 /\ inp' = [inp EXCEPT ![r] = [ep |-> ep, payload |-> p, ctype |-> ct]]
                 /\ UNCHANGED prior
            ELSE /\ pc' = [pc EXCEPT ![r] = "get"]
                 /\ inp' = [inp EXCEPT ![r] = [ep |-> ep, payload |-> p, ctype |-> ct]]
                 /\ prior' = [prior EXCEPT ![r] = served[p]]
                 /\ UNCHANGED result
    /\ UNCHANGED <<attempt, sleepLeft, data, last, waits, ocrCalls, tempFile, recorded,
                   admitted, recordedIn, cache, served, cbVars, cbParams, cacheCall, pureCall, backend, consec>>

(* cache_service.get returns; on a hit the cached value is returned. *)
CacheGet(r) ==
    /\ pc[r] = "get"
    /\ NoneDone
    /\ \E fault \in FaultsOf(backend) :
         LET out == CacheService_get(fault, cache[calculate_file_hash(inp[r].payload)]) IN
         IF out.exc # ""
         THEN Finish(r, LookupRaised(inp[r].ep), tempFile[r])
         ELSE IF out.val # NoValue
         THEN Finish(r, HitResult(inp[r].ep, out.val), tempFile[r])
         ELSE /\ pc' = [pc EXCEPT ![r] = "proc"]
              /\ UNCHANGED <<result, tempFile, served, sleepLeft, data>>
    /\ UNCHANGED <<inp, attempt, last, waits, ocrCalls, recorded, prior,
                   admitted, recordedIn, cache, cbVars, cbParams, cacheCall, pureCall, backend, consec>>

(* The breaker's failure_count after an attempt failed and the retry         *)
(* decorator goes on to sleep: the breaker wraps the whole retrying          *)
(* function, so it sees nothing of that failure.                             *)
count_after_retried_attempt_inc(cnt) == cnt + 1

count_after_retried_attempt(cnt) == cnt

(* One invocation of model.generate_content as attempt number n of request   *)
(* r, with the breaker in state st and the sequential-failure count c, and   *)
(* everything that follows it up to the next suspension point. sigs are the  *)
(* failures the attempt can end with.                                        *)
AttemptOn(r, n, st, c, sigs) ==
    \/ \E sig \in sigs :
         /\ failure_count < MaxFailures
         /\ last' = [last EXCEPT ![r] = sig]
         /\ attempt' = [attempt EXCEPT ![r] = n]
         /\ IF retry_if_exception_type(sig) /\ ~stop_after_attempt(n)
            THEN \* tenacity sleeps before the next attempt
                 /\ pc' = [pc EXCEPT ![r] = "sleep"]
                 /\ sleepLeft' = [sleepLeft EXCEPT ![r] = wait_exponential(n)]
                 /\ waits' = [waits EXCEPT ![r] = Append(@, wait_exponential(n))]
                 /\ tempFile' = [tempFile EXCEPT ![r] = "exists"]
                 /\ state' = st
                 /\ failure_count' = count_after_retried_attempt(failure_count)
                 /\ consec' = c
                 /\ UNCHANGED <<elapsed, recorded, recordedIn, result, served, data>>
            ELSE \* reraise=True: the last failure reaches the breaker (_on_failure)
                 /\ failure_count' = failure_count + 1
                 /\ elapsed' = 0
                 /\ state' = _on_failure_state(st, failure_count)
                 /\ recorded' = [recorded EXCEPT ![r] = @ + 1]
                 /\ recordedIn' = [recordedIn EXCEPT ![r] = st]
                 /\ consec' = IF c = Void \/ c >= failure_threshold THEN Void ELSE c + 1
                 /\ Finish(r, Err("AI_SERVICE_ERROR", sig), "removed")
                 /\ UNCHANGED waits
    \/ \E t \in AiTexts :
         \* the attempt returns text: _on_success, then the response is normalised
         /\ last' = [last EXCEPT ![r] = "ok"]
         /\ attempt' = [attempt EXCEPT ![r] = n]
         /\ failure_count' = _on_success_count(failure_count)
         /\ state' = "CLOSED"
         /\ recorded' = [recorded EXCEPT ![r] = @ + 1]
         /\ consec' = Void
         /\ UNCHANGED <<elapsed, waits, recordedIn>>
         /\ IF t.fmt = "blank"
            THEN /\ Finish(r, Err("AI_SERVICE_ERROR", "Empty response from AI service"), "removed")
            ELSE IF t.fmt = "garbage"
            THEN /\ Finish(r, Err("AI_SERVICE_ERROR", "Failed to parse structured data"), "removed")
            ELSE IF inp[r].ep # "n8n" /\ ~SchemaValid(t.obj)
            THEN /\ Finish(r, Err("AI_SERVICE_ERROR", "AI response data failed validation"), "removed")
            ELSE /\ pc' = [pc EXCEPT ![r] = "set"]
                 /\ data' = [data EXCEPT ![r] = IF inp[r].ep = "n8n" THEN t.obj
                                                ELSE Validated(t.obj)]
                 /\ tempFile' = [tempFile EXCEPT ![r] = "exists"]
                 /\ UNCHANGED <<result, served, sleepLeft>>

Attempt(r, n, st, c) == AttemptOn(r, n, st, c, ErrSignals)

InBreaker(q) == pc[q] = "sleep"

(* After the cache miss: temporary file, OCR, then the breaker-guarded AI    *)
(* call up to its first suspension point.                                    *)
ProcessOn(r, sigs) ==
    /\ pc[r] \in {"proc", "call"}
    /\ NoneDone
    /\ UNCHANGED <<inp, prior, cache, cbParams, cacheCall, pureCall, backend>>
    /\ \/ \* writing the bytes into the temporary file fails
          /\ Finish(r, Err("OCR_ERROR", "Failed to process file"),
                    IF inp[r].ep = "extract" THEN "removed" ELSE "exists")
          /\ UNCHANGED <<ocrCalls, attempt, last, waits, recorded, admitted, recordedIn,
                         cbVars, consec>>
       \/ \* extract_text fails
          /\ ocrCalls' = [ocrCalls EXCEPT ![r] = @ + 1]
          /\ IF Suffix(inp[r].ep, inp[r].ctype) \notin SupportedExtensions
             THEN Finish(r, Err("FILE_PROCESSING_ERROR", "Unsupported file format"), "removed")
             ELSE \E res \in {ocr_failure_response(exc) : exc \in OcrExceptions}
                              \cup {Err("AI_SERVICE_ERROR",
                                        "Empty or invalid invoice text provided")} :
                     Finish(r, res, "removed")
          /\ UNCHANGED <<attempt, last, waits, recorded, admitted, recordedIn,
                         cbVars, consec>>
       \/ \* extract_text returns text and the breaker fails fast
          /\ Suffix(inp[r].ep, inp[r].ctype) \in SupportedExtensions
          /\ Gate(state, elapsed) = "REJECT"
          /\ ocrCalls' = [ocrCalls EXCEPT ![r] = @ + 1]
          /\ Finish(r, Rejected, "removed")
          /\ elapsed' = elapsed_after_rejected_call(elapsed)
          /\ UNCHANGED <<attempt, last, waits, recorded, admitted, recordedIn,
                         state, failure_count, consec>>
       \/ \* extract_text returns text and the breaker lets the call through
          /\ Suffix(inp[r].ep, inp[r].ctype) \in SupportedExtensions
          /\ Gate(state, elapsed) # "REJECT"
          /\ ocrCalls' = [ocrCalls EXCEPT ![r] = @ + 1]
          /\ admitted' = [admitted EXCEPT ![r] = state]
          /\ AttemptOn(r, 1, Gate(state, elapsed),
                       IF state # "CLOSED" \/ \E q \in Reqs \ {r} : InBreaker(q)
                       THEN Void ELSE consec, sigs)

Process(r) == ProcessOn(r, ErrSignals)

(* The backoff sleep is over: the next attempt. *)
WakeOn(r, sigs) ==
    /\ pc[r] = "sleep"
    /\ NoneDone
    /\ sleepLeft[r] = 0
    /\ AttemptOn(r, attempt[r] + 1, state, consec, sigs)
    /\ UNCHANGED <<inp, ocrCalls, prior, admitted, cache, cbParams, cacheCall, pureCall, backend>>

Wake(r) == WakeOn(r, ErrSignals)

(* cache_service.set, then the response is returned and the temporary file   *)
(* removed.                                                                  *)
CacheSet(r) ==
    /\ pc[r] = "set"
    /\ NoneDone
    /\ \E fault \in FaultsOf(backend) :
         LET k == calculate_file_hash(inp[r].payload)
             out == CacheService_set(fault, cache[k], CacheData(inp[r].ep, data[r]))
         IN /\ cache' = [cache EXCEPT ![k] = out.store]
            /\ Finish(r, IF out.exc # "" THEN StoreRaised
                          ELSE MissResult(inp[r].ep, data[r]), "removed")
    /\ UNCHANGED <<inp, attempt, last, waits, ocrCalls, recorded, prior,
                   admitted, recordedIn, cbVars, cbParams, cacheCall, pureCall, backend, consec>>

(* Redis drops an entry whose time-to-live is over. *)
CacheExpire(k) ==
    /\ NoneDone
    /\ cache[k] # NoValue
    /\ cache' = [cache EXCEPT ![k] = NoValue]
    /\ served' = [p \in DOMAIN served |->
                    IF calculate_file_hash(p) = k THEN NoValue ELSE served[p]]
    /\ prior' = [r \in Reqs |->
                    IF calculate_file_hash(inp[r].payload) = k THEN NoValue ELSE prior[r]]
    /\ UNCHANGED <<pc, inp, attempt, sleepLeft, data, result, last, waits, ocrCalls,
                   tempFile, recorded, admitted, recordedIn, cbVars, cbParams, cacheCall, pureCall, backend, consec>>

(* The response was delivered; the task is gone. *)
Reset(r) ==
    /\ pc[r] = "done"
    /\ pc' = [pc EXCEPT ![r] = "idle"]
    /\ inp' = [inp EXCEPT ![r] = NoInput]
    /\ attempt' = [attempt EXCEPT ![r] = 0]
    /\ sleepLeft' = [sleepLeft EXCEPT ![r] = 0]
    /\ data' = [data EXCEPT ![r] = NoValue]
    /\ result' = [result EXCEPT ![r] = NoResult]
    /\ last' = [last EXCEPT ![r] = ""]
    /\ waits' = [waits EXCEPT ![r] = <<>>]
    /\ ocrCalls' = [ocrCalls EXCEPT ![r] = 0]
    /\ tempFile' = [tempFile EXCEPT ![r] = "none"]
    /\ recorded' = [recorded EXCEPT ![r] = 0]
    /\ prior' = [prior EXCEPT ![r] = NoValue]
    /\ admitted' = [admitted EXCEPT ![r] = ""]
    /\ recordedIn' = [recordedIn EXCEPT ![r] = ""]
    /\ UNCHANGED <<cache, served, cbVars, cbParams, cacheCall, pureCall, backend, consec>>

(* Time passes: TimeStep time-units.  The time since the last failure is     *)
(* kept up to the first value beyond timeout; every larger value behaves    *)
(* the same.                                                                 *)
Tick ==
    /\ NoneDone
    /\ sleepLeft' = [r \in Reqs |-> Max(0, sleepLeft[r] - TimeStep)]
    /\ elapsed' = IF elapsed = NoTime THEN NoTime
                  ELSE Min(elapsed + TimeStep, timeout + TimeStep)
    /\ <<sleepLeft, elapsed>>' # <<sleepLeft, elapsed>>
    /\ UNCHANGED <<pc, inp, attempt, data, result, last, waits, ocrCalls, tempFile,
                   recorded, prior, admitted, recordedIn, cache, served, state, failure_count, cbParams, cacheCall, pureCall, backend, consec>>

(* Redis becomes unreachable, or reachable again. *)
Outage ==
    /\ NoneDone
    /\ backend' = IF backend = "up" THEN "down" ELSE "up"
    /\ UNCHANGED <<reqVars, cache, served, cacheCall, pureCall, cbVars, cbParams, consec>>

expected_exception_BaseException(exc) == TRUE

(* `except self.expected_exception` of call(), with expected_exception =    *)
(* (AiServiceError, Exception): it catches the subclasses of Exception,     *)
(* and asyncio.CancelledError derives from BaseException.                   *)
expected_exception(exc) == exc # "CancelledError"

Cancelled ==
    [kind |-> "cancelled", code |-> "", body |-> NoValue, cause |-> "", detail |-> ""]

(* The request's task is cancelled while it is suspended: at the cache      *)
(* lookup, in the backoff sleep of the retry decorator, or at the cache     *)
(* store.  CancelledError is no Exception: no except clause of the handler, *)
(* of the AI service or of the breaker catches it, and the handler's        *)
(* finally clause runs.                                                      *)
Cancel(r) ==
    /\ pc[r] \in {"get", "sleep", "set"}
    /\ NoneDone
    /\ Finish(r, Cancelled, IF pc[r] = "get" THEN tempFile[r] ELSE "removed")
    /\ consec' = IF pc[r] = "sleep" THEN Void ELSE consec
    /\ IF pc[r] = "sleep" /\ expected_exception("CancelledError")
       THEN \* the breaker's except clause runs _on_failure
            /\ failure_count' = failure_count + 1
            /\ elapsed' = 0
            /\ state' = _on_failure_state(state, failure_count)
            /\ recorded' = [recorded EXCEPT ![r] = @ + 1]
            /\ recordedIn' = [recordedIn EXCEPT ![r] = state]
       ELSE UNCHANGED <<cbVars, recorded, recordedIn>>
    /\ UNCHANGED <<inp, attempt, last, waits, ocrCalls, prior, admitted,
                   cache, backend, cacheCall, pureCall, cbParams>>

Next ==
    \/ \E r \in Reqs : Start(r)
    \/ \E r \in Reqs : CacheGet(r)
    \/ \E r \in Reqs : Process(r)
    \/ \E r \in Reqs : Wake(r)
    \/ \E r \in Reqs : CacheSet(r)
    \/ \E r \in Reqs : Reset(r)
    \/ \E k \in Keys : CacheExpire(k)
    \/ Tick

Spec == Init /\ [][Next]_vars

(* The service under faults: Redis outages and cancelled requests, with the *)
(* requests arriving one after the other.                                   *)
Solo == {1}

(* Process and Wake with a dependency that can also answer without text. *)
ProcessEmpty(r) == ProcessOn(r, ErrSignals \cup {EmptyResponse})
WakeEmpty(r) == WakeOn(r, ErrSignals \cup {EmptyResponse})

NextFaults ==
    \/ \E r \in Solo : Start(r)
    \/ \E r \in Solo : CacheGet(r)
    \/ \E r \in Solo : ProcessEmpty(r)
    \/ \E r \in Solo : WakeEmpty(r)
    \/ \E r \in Solo : CacheSet(r)
    \/ \E r \in Solo : Reset(r)
    \/ \E r \in Solo : Cancel(r)
    \/ \E k \in Keys : CacheExpire(k)
    \/ Tick
    \/ Outage

SpecFaults == Init /\ [][NextFaults]_vars

----------------------------------------------------------------------------
(* Progress. Requests arrive one after the other; whatever a request waits  *)
(* for comes: the cache answers or fails, extract_text and                  *)
(* model.generate_content return or raise, and the clock advances, so that  *)
(* a backoff sleep ends.                                                     *)

(* The next step of request r after its arrival. *)
Step(r) == CacheGet(r) \/ Process(r) \/ Wake(r) \/ CacheSet(r)

NextLive ==
    \/ \E r \in Solo : Start(r)
    \/ \E r \in Solo : Step(r)
    \/ \E r \in Solo : Reset(r)
    \/ \E k \in Keys : CacheExpire(k)
    \/ Tick

Fairness ==
    /\ \A r \in Solo : WF_vars(Step(r))
    /\ \A r \in Solo : WF_vars(Reset(r))
    /\ WF_vars(Tick)

SpecLive == Init /\ [][NextLive]_vars /\ Fairness

----------------------------------------------------------------------------
(* The event loop. The handlers are coroutines of one asyncio loop, and     *)
(* extract_text (fitz.open, page.get_text) and model.generate_content are   *)
(* plain blocking calls made from the coroutine, with no executor and no    *)
(* await: from the moment a request enters them until they return, the      *)
(* loop's thread is theirs and no other coroutine is resumed. pc = "call"   *)
(* is a request inside these calls of its Process step.                     *)

LoopFree == \A q \in Reqs : pc[q] # "call"

EnterCall(r) ==
    /\ pc[r] = "proc"
    /\ NoneDone
    /\ LoopFree
    /\ pc' = [pc EXCEPT ![r] = "call"]
    /\ UNCHANGED <<inp, attempt, sleepLeft, data, result, last, waits, ocrCalls, tempFile,
                   recorded, prior, admitted, recordedIn, cache, served, backend,
                   cacheCall, pureCall, cbVars, cbParams, consec>>

ReturnCall(r) == pc[r] = "call" /\ Process(r)

(* A step of a coroutine the loop resumes. *)
Resume(r) ==
    /\ LoopFree
    /\ \/ Start(r)
       \/ CacheGet(r)
       \/ Wake(r)
       \/ CacheSet(r)
       \/ Reset(r)

NextLoop ==
    \/ \E r \in Reqs : Resume(r)
    \/ \E r \in Reqs : EnterCall(r)
    \/ \E r \in Reqs : ReturnCall(r)
    \/ \E k \in Keys : CacheExpire(k)
    \/ Tick

SpecLoop == Init /\ [][NextLoop]_vars

----------------------------------------------------------------------------
(* The cache service on its own: its three methods called with any key      *)
(* state and any backend failure, the last call kept in cacheCall.          *)

(* Values a caller hands to set; a validated record may hold a date object. *)
SetValues == Dicts \cup {Validated(d) : d \in Dicts}

CacheCallUnchanged ==
    UNCHANGED <<reqVars, served, backend, pureCall, cbVars, cbParams, consec>>

CallGet ==
    \E k \in Keys, fault \in FaultsOf(backend) :
      LET out == CacheService_get(fault, cache[k])
      IN /\ cacheCall' = [op |-> "get", fault |-> fault, stored |-> cache[k],
                          value |-> NoValue, out |-> out]
         /\ cache' = [cache EXCEPT ![k] = out.store]
         /\ CacheCallUnchanged

CallSet ==
    \E k \in Keys, fault \in FaultsOf(backend), value \in SetValues :
      LET out == CacheService_set(fault, cache[k], value)
      IN /\ cacheCall' = [op |-> "set", fault |-> fault, stored |-> cache[k],
                          value |-> value, out |-> out]
         /\ cache' = [cache EXCEPT ![k] = out.store]
         /\ CacheCallUnchanged

CallCheck ==
    \E k \in Keys, fault \in FaultsOf(backend) :
      LET out == CacheService_check(fault, cache[k])
      IN /\ cacheCall' = [op |-> "check", fault |-> fault, stored |-> cache[k],
                          value |-> NoValue, out |-> out]
         /\ cache' = [cache EXCEPT ![k] = out.store]
         /\ CacheCallUnchanged

(* Another Redis client leaves a string that is not JSON under the key. *)
ForeignWrite ==
    /\ backend = "up"
    /\ \E k \in Keys : cache' = [cache EXCEPT ![k] = Corrupt]
    /\ UNCHANGED <<reqVars, served, backend, cacheCall, pureCall, cbVars, cbParams, consec>>

NextCache ==
    \/ CallGet
    \/ CallSet
    \/ CallCheck
    \/ ForeignWrite
    \/ \E k \in Keys : CacheExpire(k)
    \/ Outage

SpecCache == Init /\ [][NextCache]_vars

----------------------------------------------------------------------------
(* Pure functions of the AI service, applied on their own to inputs drawn    *)
(* from bounded sets: the failure classifier and the response normaliser.    *)

MaxPieces == 2

(* Pieces the text of an exception is put together from. *)
Pieces ==
    { <<"4", "2", "9">>, <<"5", "0", "0">>, <<"5", "0", "2">>, <<"5", "0", "4">>,
      <<"5", "0">>, <<"3">>,
      <<"T", "i", "m", "e", "o", "u", "t">>, <<"t", "i", "m", "e", " ", "o", "u", "t">>,
      <<"C", "O", "N", "N", "E", "C", "T", "I", "O", "N">>,
      <<"n", "e", "t", "w", "o", "r", "k">>, <<"n", "e", "t">>,
      <<"Q", "u", "o", "t", "a">>, <<" ", "E", "x", "c", "e", "e", "d", "e", "d">>,
      <<"e", "x", "c", "e", "e", "d", "e", "d">>,
      <<"4", "0", "1">>, <<" ">>, <<"k", "e", "y">> }

RECURSIVE TextsOf(_)
TextsOf(n) ==
    IF n = 0 THEN {<<>>}
    ELSE TextsOf(n - 1) \cup {t \o p : t \in TextsOf(n - 1), p \in Pieces}

ErrorTexts == TextsOf(MaxPieces)

(* Python values, tagged with their type: s is the text of a str, n the     *)
(* value of a number.                                                        *)
PyStr(s) == [t |-> "str", s |-> s, n |-> 0]
PyNum(n) == [t |-> "number", s |-> <<>>, n |-> n]
PyNone == [t |-> "NoneType", s |-> <<>>, n |-> 0]
Missing == [t |-> "missing", s |-> <<>>, n |-> 0]
Invalid == [t |-> "invalid", s |-> <<>>, n |-> 0]

digits == <<"0", "1", "2", "3", "4", "5", "6", "7", "8", "9">>
isdigit(ch) == \E k \in 1..10 : digits[k] = ch
digit(ch) == (CHOOSE k \in 1..10 : digits[k] = ch) - 1

RECURSIVE int(_)
int(s) == IF Len(s) = 0 THEN 0 ELSE 10 * int(SubSeq(s, 1, Len(s) - 1)) + digit(s[Len(s)])

(* Conversion of a string to a number: a non-empty run of decimal digits is  *)
(* the only numeric form among the strings drawn here.                       *)
float(s) == IF Len(s) > 0 /\ \A i \in 1..Len(s) : isdigit(s[i]) THEN PyNum(int(s)) ELSE Invalid

float_field_zero(val) ==
    CASE val.t = "number" -> val
      [] val.t = "str" -> IF float(val.s).t = "invalid" THEN PyNum(0) ELSE float(val.s)
      [] OTHER -> Invalid

(* A field annotated float: a number is kept, a numeric string is converted, *)
(* anything else (text, null, no value) is a validation error.               *)
float_field(val) ==
    CASE val.t = "number" -> val
      [] val.t = "str" -> float(val.s)
      [] OTHER -> Invalid

(* A required field annotated str. *)
str_field(val) == IF val.t = "str" THEN val ELSE Invalid

(* A field annotated str with a default. *)
str_field_default(val, default) == IF val.t = "missing" THEN PyStr(default) ELSE str_field(val)

(* ExtractedItem: construction from the keys of an item. *)
ExtractedItem(item) ==
    LET rec == [description |-> str_field(item.description),
                quantity |-> float_field(item.quantity),
                unit_price |-> float_field(item.unit_price),
                total_price |-> float_field(item.total_price)]
    IN IF \E f \in DOMAIN rec : rec[f].t = "invalid" THEN Invalid
       ELSE [t |-> "ExtractedItem", v |-> rec]

(* items: List[ExtractedItem] = [] *)
items_field(val) ==
    CASE val.t = "missing" -> [t |-> "list", v |-> <<>>]
      [] val.t = "list" ->
            IF \E i \in 1..Len(val.v) : ExtractedItem(val.v[i]).t = "invalid" THEN Invalid
            ELSE [t |-> "list", v |-> [i \in 1..Len(val.v) |-> ExtractedItem(val.v[i])]]
      [] OTHER -> Invalid

(* InvoiceData, built from the keys of extracted_data: raises (TypeError for *)
(* a value that is not a mapping, ValidationError otherwise) or returns the *)
(* model.                                                                   *)
InvoiceData(extracted_data) ==
    IF extracted_data.t # "dict" THEN Invalid
    ELSE LET d == extracted_data.v
             rec == [invoice_number |-> str_field(d.invoice_number),
                     vendor_name |-> str_field(d.vendor_name),
                     subtotal |-> float_field(d.subtotal),
                     tax |-> float_field(d.tax),
                     total |-> float_field(d.total),
                     currency |-> str_field_default(d.currency, <<"U", "S", "D">>),
                     items |-> items_field(d.items)]
         IN IF \E f \in DOMAIN rec : rec[f].t = "invalid" THEN Invalid
            ELSE [t |-> "InvoiceData", v |-> rec]

(* Texts the dependency returns to the normaliser: optional prose, an       *)
(* optional markdown fence, and the JSON source, given as the value it      *)
(* denotes ("malformed" and "empty" denote none).                           *)
INV_1 == <<"I", "N", "V", "-", "1">>
ACME == <<"A", "c", "m", "e">>
invalid_number == <<"i", "n", "v", "a", "l", "i", "d", "_", "n", "u", "m", "b", "e", "r">>

GoodItem == [description |-> PyStr(<<"b", "o", "l", "t">>), quantity |-> PyNum(2),
             unit_price |-> PyNum(5), total_price |-> PyNum(10)]
BadItem == [GoodItem EXCEPT !.quantity = PyStr(<<"t", "w", "o">>)]

JsonObjects ==
    [invoice_number : {PyStr(INV_1), Missing},
     vendor_name : {PyStr(ACME), Missing},
     subtotal : {PyNum(10), PyStr(invalid_number)},
     tax : {PyNum(1), Missing},
     total : {PyNum(11), PyStr(<<"1", "1">>), PyStr(invalid_number), PyNone, Missing},
     currency : {Missing},
     items : {Missing, [t |-> "list", v |-> <<GoodItem>>], [t |-> "list", v |-> <<BadItem>>]}]

JsonSources ==
    {[t |-> "dict", v |-> o] : o \in JsonObjects}
        \cup {[t |-> "list", v |-> <<>>], [t |-> "malformed", v |-> <<>>],
              [t |-> "empty", v |-> <<>>]}

(* The opening fence: none, three backticks, three backticks and "json". *)
Fences == {"none", "fence", "fence json"}
Leads == {"", "Here is the extracted data:"}

ResponseTexts == [lead : Leads, fence : Fences, body : JsonSources]

(* `not response_text or not response_text.strip()` *)
is_blank(response_text) ==
    response_text.lead = "" /\ response_text.fence = "none" /\ response_text.body.t = "empty"

(* clean_ai_response: strip; when the pattern of a fenced block (optionally  *)
(* tagged json) is found, only its group is kept, so what precedes the      *)
(* fence is dropped.                                                         *)
clean_ai_response(response_text) ==
    IF response_text.fence = "none"
    THEN [lead |-> response_text.lead, body |-> response_text.body]
    ELSE [lead |-> "", body |-> response_text.body]

(* json.loads: the value, or JSONDecodeError with its message. *)
json_loads(cleaned) ==
    IF cleaned.lead # "" \/ cleaned.body.t \in {"malformed", "empty"}
    THEN [exc |-> "JSONDecodeError", msg |-> "Expecting value: line 1 column 1 (char 0)",
          val |-> Invalid]
    ELSE [exc |-> "", msg |-> "", val |-> cleaned.body]

NoRecord == [t |-> "none", v |-> <<>>]
Returned(rec) == [kind |-> "record", rec |-> rec, error |-> "", detail |-> <<>>]
Raised(error, detail) == [kind |-> "error", rec |-> NoRecord, error |-> error, detail |-> detail]

(* get_structured_data from the answer of the dependency on: the empty      *)
(* check, clean_ai_response, json.loads, InvoiceData, and the except        *)
(* clauses around them.                                                      *)
get_structured_data(response_text) ==
    IF is_blank(response_text)
    THEN Raised("Empty response from AI service", <<>>)
    ELSE LET extracted_data == json_loads(clean_ai_response(response_text))
         IN IF extracted_data.exc = "JSONDecodeError"
            THEN Raised("Failed to parse structured data from AI response",
                        <<"JSON parse error: ", extracted_data.msg>>)
            ELSE LET validated_data == InvoiceData(extracted_data.val)
                 IN IF validated_data.t = "invalid"
                    THEN Raised("AI response data failed validation",
                                <<"Validation error: ", "validation_error">>)
                    ELSE Returned(validated_data)

PureUnchanged ==
    UNCHANGED <<reqVars, cache, served, backend, cacheCall, cbVars, cbParams, consec>>

(* The text of an exception reaches the classifier. *)
DrawError ==
    \E error \in ErrorTexts :
      /\ pureCall = NoPure
      /\ pureCall' = [op |-> "error", arg |-> error, out |-> FALSE]
      /\ PureUnchanged

(* An answer of the dependency reaches the normaliser. *)
DrawResponse ==
    \E response_text \in ResponseTexts :
      /\ pureCall = NoPure
      /\ pureCall' = [op |-> "response_text", arg |-> response_text, out |-> FALSE]
      /\ PureUnchanged

Classify ==
    /\ pureCall.op = "error"
    /\ pureCall' = [op |-> "is_transient_error", arg |-> pureCall.arg,
                    out |-> _is_transient_error(pureCall.arg)]
    /\ PureUnchanged

Normalize ==
    /\ pureCall.op = "response_text"
    /\ pureCall' = [op |-> "get_structured_data", arg |-> pureCall.arg,
                    out |-> get_structured_data(pureCall.arg)]
    /\ PureUnchanged

NextPure == DrawError \/ DrawResponse \/ Classify \/ Normalize

SpecPure == Init /\ [][NextPure]_vars

----------------------------------------------------------------------------
(* Properties *)

(* The key a request looks up. *)
KeyOf(r) == calculate_file_hash(inp[r].payload)

(* C1: on every extraction endpoint, a request whose cache lookup returns a  *)
(* stored record returns that record, and it has made no OCR call, no AI     *)
(* call (the breaker recorded nothing for it) and has no temporary file.     *)
C1_CacheHitReturnsRecord ==
    [][\A r \in Reqs :
         (pc[r] = "get" /\ pc'[r] # "get" /\ cache[KeyOf(r)] # NoValue)
         => /\ result'[r] = Ok(cache[KeyOf(r)])
            /\ ocrCalls'[r] = 0
            /\ attempt'[r] = 0
            /\ recorded'[r] = 0
            /\ tempFile'[r] = "none"]_vars

(* A lookup that hit has ended in an error, on an entry that /extract-n8n   *)
(* stored without validating it.                                             *)
C1_HitEndsInError ==
    \E r \in Reqs :
      /\ pc[r] = "done"
      /\ KeyOf(r) \in Keys
      /\ cache[KeyOf(r)] = DictX
      /\ ocrCalls[r] = 0 /\ attempt[r] = 0 /\ tempFile[r] = "none"
      /\ result[r] \in {Err("FILE_PROCESSING_ERROR", "Error reading uploaded file"),
                        Err("INTERNAL_ERROR", "Internal Server Error")}

(* C2: after a request for some bytes has completed successfully, every     *)
(* later request with the same bytes that starts before the entry expires   *)
(* returns the same record and makes no OCR call and no AI call.            *)
C2_RepeatServedFromCache ==
    \A r \in Reqs :
      (pc[r] = "done" /\ prior[r] # NoValue)
      => /\ result[r] = Ok(prior[r])
         /\ ocrCalls[r] = 0
         /\ attempt[r] = 0

(* A repeat of a request that had returned a record with a date ran OCR and *)
(* the AI call again: the record was never stored.                           *)
C2_DatedRecordRecomputed ==
    \E r \in Reqs :
      /\ pc[r] = "done"
      /\ prior[r] = DictD
      /\ cache[KeyOf(r)] = NoValue
      /\ ocrCalls[r] = 1
      /\ attempt[r] >= 1

(* Results of a request that ended after the cache miss and before the      *)
(* breaker was called.                                                       *)
PreBreakerResults ==
    {ocr_failure_response(exc) : exc \in OcrExceptions}
        \cup {Err("OCR_ERROR", "Failed to process file"),
              Err("OCR_ERROR", "OCR processing failed"),
              Err("FILE_PROCESSING_ERROR", "Unsupported file format"),
              Err("AI_SERVICE_ERROR", "Empty or invalid invoice text provided")}

(* C3: a breaker with failure_threshold N >= 1 that starts Closed with      *)
(* failure_count 0 and is called sequentially is, after k < N consecutive   *)
(* failing calls, Closed with failure_count k, and after the N-th Open with *)
(* failure_count N; the next call made before the cooldown has elapsed      *)
(* raises CircuitBreakerOpenError and the wrapped operation is not invoked. *)
C3_OpensAtThreshold ==
    /\ [](consec # Void =>
            /\ consec <= failure_threshold
            /\ failure_count = consec
            /\ state = IF consec < failure_threshold THEN "CLOSED" ELSE "OPEN")
    /\ [][\A r \in Reqs :
            (/\ pc[r] = "proc" /\ pc'[r] # "proc"
             /\ consec = failure_threshold /\ elapsed <= timeout)
            => /\ attempt'[r] = 0 /\ last'[r] = "" /\ recorded'[r] = 0
               /\ UNCHANGED cbVars
               /\ result'[r] \notin PreBreakerResults
                  => result'[r].code = "CIRCUIT_BREAKER_OPEN"]_vars

(* Two sequential failing calls opened a breaker of threshold 2 and the     *)
(* third call was rejected.                                                  *)
C3_RejectedAfterThreshold ==
    /\ failure_threshold = 2 /\ consec = 2
    /\ state = "OPEN" /\ failure_count = 2
    /\ \E r \in Reqs : /\ pc[r] = "done"
                       /\ result[r].code = "CIRCUIT_BREAKER_OPEN"
                       /\ attempt[r] = 0

(* C4: when the breaker is Open and a call arrives strictly more than the   *)
(* cooldown after the last failure, the wrapped operation is invoked, in    *)
(* state HalfOpen; if that call succeeds the breaker ends Closed with       *)
(* failure_count 0.  A call arriving when the elapsed time is at most the   *)
(* cooldown is rejected.                                                     *)
C4_TrialAfterCooldown ==
    [][\A r \in Reqs :
         /\ (pc[r] = "proc" /\ pc'[r] # "proc" /\ state = "OPEN"
             /\ result'[r] \notin PreBreakerResults)
            => IF elapsed > timeout
               THEN /\ attempt'[r] = 1
                    /\ IF last'[r] = "ok"
                       THEN state' = "CLOSED" /\ failure_count' = 0
                       ELSE state' = "HALF_OPEN" /\ pc'[r] = "sleep"
               ELSE /\ attempt'[r] = 0
                    /\ result'[r].code = "CIRCUIT_BREAKER_OPEN"
                    /\ UNCHANGED cbVars
         /\ (pc[r] = "sleep" /\ state = "HALF_OPEN" /\ last'[r] = "ok")
            => state' = "CLOSED" /\ failure_count' = 0]_vars

(* A call that found the breaker Open after the cooldown was invoked, its   *)
(* second attempt succeeded, and the breaker is Closed with count 0.        *)
C4_TrialClosedBreaker ==
    \E r \in Reqs :
      /\ admitted[r] = "OPEN" /\ attempt[r] = 2 /\ last[r] = "ok" /\ pc[r] = "set"
      /\ state = "CLOSED" /\ failure_count = 0
      /\ \A q \in Reqs \ {r} : pc[q] = "idle"

(* C5: a failure of the wrapped operation while the breaker is HalfOpen     *)
(* puts the breaker back to Open with failure_count incremented and         *)
(* last_failure_time set to the time of that failure, whatever the          *)
(* threshold (>= 1).                                                         *)
C5_HalfOpenFailureReopens ==
    [][\A r \in Reqs :
         (state = "HALF_OPEN" /\ recorded'[r] = recorded[r] + 1 /\ last'[r] # "ok")
         => /\ state' = "OPEN"
            /\ failure_count' = failure_count + 1
            /\ elapsed' = 0]_vars

(* A trial call failed in HalfOpen and the breaker is Open again, its count *)
(* above the threshold.                                                      *)
C5_TrialFailed ==
    \E r \in Reqs :
      /\ pc[r] = "done" /\ admitted[r] = "OPEN" /\ recordedIn[r] = "HALF_OPEN"
      /\ result[r].code = "AI_SERVICE_ERROR" /\ attempt[r] = StopAfterAttempt
      /\ state = "OPEN" /\ failure_count = failure_threshold + 1 /\ elapsed = 0

(* C6: an attempt that fails with an error signal the classifier marks      *)
(* Permanent is raised immediately: no backoff wait follows it, and when it *)
(* is the first attempt the AI dependency was invoked exactly once.         *)
C6_PermanentRaisedImmediately ==
    \A r \in Reqs :
      (attempt[r] >= 1 /\ last[r] \in ErrSignals /\ RaisedKind(last[r]) = "permanent")
      => /\ pc[r] = "done"
         /\ result[r] = Err("AI_SERVICE_ERROR", last[r])
         /\ Len(waits[r]) < attempt[r]

(* The first attempt failed with "invalid api key" and the request sits in  *)
(* a backoff wait.                                                           *)
C6_PermanentRetried ==
    \E r \in Reqs :
      /\ pc[r] = "sleep" /\ attempt[r] = 1
      /\ last[r] = "invalid api key" /\ ~_is_transient_error(str(last[r]))
      /\ waits[r] = <<WaitMin>>

(* C7: a logical AI request invokes the AI dependency at most 3 times;      *)
(* attempt n+1 happens only after attempt n failed; the first successful    *)
(* attempt ends the attempts and its text goes on to be parsed; when all 3  *)
(* attempts fail, the failure of the third is what is raised.               *)
C7_AtMostThreeAttempts ==
    /\ [](\A r \in Reqs :
            /\ attempt[r] <= StopAfterAttempt
            /\ pc[r] = "sleep"
               => attempt[r] >= 1 /\ last[r] \in ErrSignals /\ Len(waits[r]) = attempt[r]
            /\ last[r] = "ok" => pc[r] \in {"set", "done"}
            /\ pc[r] = "set" => data[r] # NoValue
            /\ (pc[r] = "done" /\ last[r] \in ErrSignals)
               => /\ attempt[r] = StopAfterAttempt
                  /\ result[r] = Err("AI_SERVICE_ERROR", last[r]))
    /\ [][\A r \in Reqs :
            (pc[r] # "done" /\ attempt'[r] # attempt[r])
            => /\ attempt'[r] = attempt[r] + 1
               /\ last[r] # "ok"
               /\ attempt[r] >= 1 => pc[r] = "sleep" /\ last[r] \in ErrSignals]_vars

(* Three attempts failed, two waits were slept, and the third failure is    *)
(* the request's error.                                                      *)
C7_ThirdFailureRaised ==
    \E r \in Reqs :
      /\ pc[r] = "done" /\ attempt[r] = 3 /\ Len(waits[r]) = 2
      /\ last[r] = "503"
      /\ result[r] = Err("AI_SERVICE_ERROR", "503")

C9_OneOutcomePerRequest ==
    /\ [](\A r \in Reqs :
            /\ recorded[r] <= 1
            /\ pc[r] = "sleep" => recorded[r] = 0
            /\ pc[r] = "set" => recorded[r] = 1
            /\ (pc[r] = "done" /\ attempt[r] >= 1) => recorded[r] = 1)
    /\ [][\A r \in Reqs :
            (pc[r] \in {"proc", "sleep"} /\ attempt'[r] = attempt[r] + 1)
            => IF pc'[r] = "sleep"
               THEN /\ failure_count' = failure_count
                    /\ elapsed' = elapsed
                    /\ recorded'[r] = recorded[r]
               ELSE IF last'[r] = "ok"
               THEN /\ failure_count' = 0
                    /\ recorded'[r] = recorded[r] + 1
               ELSE /\ failure_count' = failure_count + 1
                    /\ attempt'[r] = StopAfterAttempt
                    /\ recorded'[r] = recorded[r] + 1]_vars

(* The first breaker call failed all three attempts and failure_count is 1. *)
C9_ThreeFailuresCountOnce ==
    /\ consec = 1 /\ failure_count = 1
    /\ \E r \in Reqs : pc[r] = "done" /\ attempt[r] = 3 /\ recorded[r] = 1
                       /\ last[r] \in ErrSignals

(* C10: while the breaker is HalfOpen and its trial call is in flight,      *)
(* suspended in a backoff wait, no other arriving call is passed to the AI  *)
(* dependency.                                                               *)
C10_SingleTrialInHalfOpen ==
    [][\A r \in Reqs :
         (/\ pc[r] = "proc" /\ pc'[r] # "proc"
          /\ state = "HALF_OPEN"
          /\ \E q \in Reqs \ {r} : InBreaker(q) /\ admitted[q] = "OPEN")
         => attempt'[r] = 0]_vars

(* The trial call and a call that arrived in HalfOpen are both in flight. *)
C10_TwoCallsInHalfOpen ==
    \E r, q \in Reqs :
      /\ r # q /\ state = "HALF_OPEN"
      /\ admitted[q] = "OPEN" /\ pc[q] = "sleep"
      /\ admitted[r] = "HALF_OPEN" /\ pc[r] = "sleep"

(* C11: once the breaker has entered Open it does not become Closed until a *)
(* call that arrived after the cooldown elapsed has succeeded: the success  *)
(* that closes it is never that of a call admitted while the breaker was    *)
(* still Closed.                                                             *)
C11_ClosedOnlyByLaterCall ==
    [][\A r \in Reqs :
         (/\ state # "CLOSED" /\ state' = "CLOSED"
          /\ last[r] # "ok" /\ last'[r] = "ok")
         => admitted'[r] # "CLOSED"]_vars

(* A breaker of threshold 1 recorded a failure, no time has passed since,   *)
(* and it is Closed again by the success of a call admitted before.         *)
C11_ClosedWithinCooldown ==
    /\ failure_threshold = 1 /\ elapsed = 0
    /\ state = "CLOSED" /\ failure_count = 0
    /\ \E r \in Reqs : pc[r] = "set" /\ admitted[r] = "CLOSED" /\ last[r] = "ok"

(* C12: a breaker-guarded call that is cancelled while in flight is         *)
(* recorded neither as a failure nor as a success: the cancellation leaves  *)
(* failure_count and last_failure_time as they are, and the call has caused *)
(* no _on_success and no _on_failure. (A cancelled request whose last      *)
(* attempt failed was cancelled in the backoff wait, inside the call.)      *)
C12_CancelledCallNotRecorded ==
    /\ [](\A r \in Reqs :
            (pc[r] = "done" /\ result[r] = Cancelled /\ last[r] \in ErrSignals)
            => recorded[r] = 0)
    /\ [][\A r \in Reqs :
            (pc[r] = "sleep" /\ result'[r] = Cancelled)
            => /\ failure_count' = failure_count
               /\ elapsed' = elapsed
               /\ recorded[r] = 0]_vars

(* A call was cancelled in its backoff wait after a failed attempt, and the *)
(* breaker has never recorded a failure.                                     *)
C12_CancelledInBackoff ==
    \E r \in Reqs :
      /\ pc[r] = "done" /\ result[r] = Cancelled
      /\ attempt[r] = 2 /\ last[r] \in ErrSignals
      /\ failure_count = 0 /\ elapsed = NoTime /\ state = "CLOSED"

(* C13: every value the cache holds has passed schema validation, whichever *)
(* endpoint stored it.                                                       *)
C13_CachedValuesValidated ==
    \A k \in Keys : cache[k] # NoValue => SchemaValid(cache[k])

(* /extract-n8n stored the parsed dict, which lacks a required field, and  *)
(* then failed on the response validation.                                   *)
C13_UnvalidatedDictCached ==
    \E r \in Reqs :
      /\ pc[r] = "done" /\ inp[r].ep = "n8n" /\ result[r].code = "INTERNAL_ERROR"
      /\ KeyOf(r) \in Keys
      /\ cache[KeyOf(r)] = DictX /\ ~SchemaValid(cache[KeyOf(r)])

(* C14: with the cache backend unreachable a request behaves as with an     *)
(* empty cache: the lookup counts as a miss and processing goes on, the     *)
(* failed store leaves the cache alone and the caller gets the result of    *)
(* the processing; the cache failure itself never becomes the response.     *)
C14_CacheOutageIsAMiss ==
    [][\A r \in Reqs :
         (backend = "down" /\ result'[r] # Cancelled)
         => /\ (pc[r] = "get" /\ pc'[r] # "get")
                => (pc'[r] = "proc" /\ result'[r] = NoResult)
            /\ (pc[r] = "set" /\ pc'[r] # "set")
                => /\ result'[r] = MissResult(inp[r].ep, data[r])
                   /\ cache' = cache]_vars

(* A request was processed and answered 200 with the backend down: its      *)
(* record, although serialisable, is not in the cache.                       *)
C14_ServedDuringOutage ==
    \E r \in Reqs :
      /\ pc[r] = "done" /\ backend = "down" /\ attempt[r] >= 1
      /\ result[r].kind = "ok" /\ result[r].body.date = "null"
      /\ KeyOf(r) \in Keys /\ cache[KeyOf(r)] = NoValue

(* C15: get, set and check never raise. Whatever fails inside them, the     *)
(* connection, the command, or the decoding or encoding of the value, get   *)
(* returns None, set returns False leaving the key alone, and check returns *)
(* False; without a failure they return the stored value, True, and whether *)
(* the key exists.                                                           *)
C15_CacheMethodsNeverRaise ==
    LET c == cacheCall
    IN c.op # "none" =>
         /\ c.out.exc = ""
         /\ c.op = "get" =>
              /\ (c.fault # "none" \/ c.stored = Corrupt) => c.out.val = NoValue
              /\ (c.fault = "none" /\ c.stored # Corrupt) => c.out.val = c.stored
              /\ c.out.store = c.stored
         /\ c.op = "set" =>
              /\ (c.fault # "none" \/ ~JsonSerializable(c.value))
                    => (c.out.ok = "False" /\ c.out.store = c.stored)
              /\ (c.fault = "none" /\ JsonSerializable(c.value))
                    => (c.out.ok = "True" /\ c.out.store = c.value)
         /\ c.op = "check" =>
              /\ c.fault # "none" => c.out.ok = "False"
              /\ c.fault = "none" => (c.out.ok = "True" <=> c.stored # NoValue)
              /\ c.out.store = c.stored

(* get found a value that is not JSON and returned None. *)
C15_UnparsableValueRead ==
    /\ cacheCall.op = "get" /\ cacheCall.fault = "none"
    /\ cacheCall.stored = Corrupt
    /\ cacheCall.out.exc = "" /\ cacheCall.out.val = NoValue

(* C16: once the temporary file has been created, no request ends with the  *)
(* file still on disk, whatever the way the request ends.                   *)
C16_TempFileRemovedOnEveryExit ==
    \A r \in Reqs : pc[r] = "done" => tempFile[r] # "exists"

(* /extract-simple or /extract-n8n failed while writing the upload into the *)
(* temporary file, before OCR ran, and the file is still there.             *)
C16_TempFileLeftAfterWriteFailure ==
    \E r \in Reqs :
      /\ pc[r] = "done" /\ inp[r].ep \in {"simple", "n8n"}
      /\ ocrCalls[r] = 0 /\ result[r] = Err("OCR_ERROR", "Failed to process file")
      /\ tempFile[r] = "exists"

(* C17: when the OCR collaborator raises, whatever it raises, the request   *)
(* ends with OCR_ERROR after exactly one OCR invocation, with no AI call,   *)
(* the breaker untouched and nothing written to the cache.                  *)
C17_OcrFailureIsOcrError ==
    [][\A r \in Reqs :
         (/\ pc[r] = "proc" /\ pc'[r] = "done"
          /\ ocrCalls'[r] = ocrCalls[r] + 1
          /\ result'[r].cause \in {"OCR processing failed", "Failed to process file",
                                   "Unsupported file format"})
         => /\ result'[r].code = "OCR_ERROR"
            /\ ocrCalls'[r] = 1 /\ attempt'[r] = 0
            /\ UNCHANGED <<state, failure_count, elapsed>>
            /\ cache' = cache]_vars

(* extract_text rejected the temporary file's suffix and the request ended  *)
(* with FILE_PROCESSING_ERROR.                                               *)
C17_OcrFailureAsInputError ==
    \E r \in Reqs :
      /\ pc[r] = "done" /\ ocrCalls[r] = 1 /\ attempt[r] = 0
      /\ Suffix(inp[r].ep, inp[r].ctype) \notin SupportedExtensions
      /\ result[r] = Err("FILE_PROCESSING_ERROR", "Unsupported file format")

C19_UnsupportedTypeRejected ==
    \A r \in Reqs :
      (/\ inp[r].ep \in Endpoints /\ inp[r].payload # "missing"
       /\ inp[r].ctype \notin SUPPORTED_FILE_TYPES
       /\ ~(inp[r].ep = "extract" /\ inp[r].ctype = "multipart/form-data"))
      => /\ pc[r] = "done" /\ result[r].kind = "err"
         /\ status_code(result[r].code) = 400
         /\ ocrCalls[r] = 0 /\ attempt[r] = 0

(* /extract-n8n ran OCR and the AI on an upload declared text/plain and     *)
(* answered 200.                                                             *)
C19_UnsupportedTypeProcessed ==
    \E r \in Reqs :
      /\ inp[r].ep = "n8n" /\ inp[r].ctype = "text/plain"
      /\ pc[r] = "done" /\ result[r].kind = "ok"
      /\ ocrCalls[r] = 1 /\ attempt[r] >= 1

(* C20: every request that does not succeed ends with a structured error    *)
(* object: a message and an error code from the fixed set of codes.         *)
C20_FailureIsStructuredError ==
    \A r \in Reqs :
      (pc[r] = "done" /\ result[r].kind # "ok")
      => /\ result[r].kind = "err"
         /\ result[r].code \in ErrorCodes
         /\ result[r].cause # ""

(* /extract-simple was called without the data field and answered with the *)
(* framework's validation body: no message, no error code.                  *)
C20_ValidationFailureUnstructured ==
    \E r \in Reqs :
      /\ pc[r] = "done" /\ inp[r].ep = "simple" /\ inp[r].payload = "missing"
      /\ result[r] = Unprocessable /\ result[r].code \notin ErrorCodes

(* C21: a request the breaker rejects ends, on every endpoint, with error   *)
(* code CIRCUIT_BREAKER_OPEN and status 503, not with the code of the other *)
(* AI failures; and only a rejected request, one for which the dependency   *)
(* was never invoked, carries that code.                                     *)
C21_RejectionHasDistinctCode ==
    /\ [](\A r \in Reqs :
            (pc[r] = "done" /\ result[r].kind = "err")
            => /\ result[r].code = "CIRCUIT_BREAKER_OPEN"
                    => (attempt[r] = 0 /\ ocrCalls[r] = 1 /\ result[r] = Rejected)
               /\ result[r].cause \in ErrSignals
                    => (attempt[r] >= 1 /\ result[r].code = "AI_SERVICE_ERROR"))
    /\ [][\A r \in Reqs :
            (/\ pc[r] = "proc" /\ pc'[r] = "done"
             /\ Gate(state, elapsed) = "REJECT"
             /\ ocrCalls'[r] = ocrCalls[r] + 1
             /\ result'[r].cause \notin {"OCR processing failed", "Failed to process file",
                                         "Unsupported file format",
                                         "Empty or invalid invoice text provided"})
            => /\ result'[r].code = "CIRCUIT_BREAKER_OPEN"
               /\ status_code(result'[r].code) = 503
               /\ result'[r].code # "AI_SERVICE_ERROR"]_vars

(* /extract-n8n answered a request that the open breaker rejected. *)
C21_RejectedOnN8n ==
    \E r \in Reqs :
      /\ pc[r] = "done" /\ inp[r].ep = "n8n" /\ state = "OPEN"
      /\ result[r].code = "CIRCUIT_BREAKER_OPEN" /\ attempt[r] = 0

(* C22: when the AI dependency answers with an empty or whitespace-only     *)
(* text the request fails with an AI-service error and nothing is cached:   *)
(* a whitespace-only answer ends the request at once with "Empty response", *)
(* and a request whose latest attempt got an answer without text does not   *)
(* go on to succeed.                                                         *)
C22_EmptyAnswerFailsRequest ==
    [][\A r \in Reqs :
         /\ (pc'[r] = "done" /\ pc[r] # "done"
             /\ result'[r].cause = "Empty response from AI service")
            => (result'[r].code = "AI_SERVICE_ERROR" /\ cache' = cache)
         /\ (pc[r] = "sleep" /\ last[r] = EmptyResponse /\ pc'[r] # "sleep")
            => /\ pc'[r] = "done"
               /\ result'[r].kind \in {"err", "cancelled"}
               /\ cache' = cache]_vars

(* The first attempt got an answer without text and the request is waiting  *)
(* to try again.                                                             *)
C22_EmptyAnswerRetried ==
    \E r \in Reqs :
      /\ pc[r] = "sleep" /\ attempt[r] = 1 /\ last[r] = EmptyResponse
      /\ sleepLeft[r] = wait_exponential(1) /\ result[r] = NoResult

(* C23: while one request is inside its OCR or AI dependency call, another  *)
(* request that waits for its cache lookup can take its next step.          *)
C23_OtherRequestNotStalled ==
    \A a \in Reqs : \A b \in Reqs \ {a} :
      (pc[a] = "call" /\ pc[b] = "get")
      => ENABLED (NextLoop /\ pc'[b] # pc[b])

(* Request b waits for the answer of its cache lookup while request a is   *)
(* inside the blocking call.                                                 *)
C23_LookupPendingDuringCall ==
    \E a \in Reqs : \E b \in Reqs \ {a} :
      /\ pc[a] = "call" /\ pc[b] = "get"
      /\ result[a] = NoResult /\ result[b] = NoResult

(* C24: an existing cache entry is read-only until it expires: the only     *)
(* change an entry undergoes is its removal at expiry.                       *)
C24_EntryReadOnlyUntilExpiry ==
    [][\A k \in Keys :
         (cache[k] # NoValue /\ cache'[k] # cache[k]) => cache'[k] = NoValue]_vars

(* A request that missed the cache is about to store its record under a key *)
(* that meanwhile holds a different record.                                  *)
C24_StoreOverExistingEntry ==
    \E r \in Reqs :
      /\ pc[r] = "set" /\ KeyOf(r) \in Keys
      /\ cache[KeyOf(r)] # NoValue
      /\ JsonSerializable(CacheData(inp[r].ep, data[r]))
      /\ CacheData(inp[r].ep, data[r]) # cache[KeyOf(r)]

(* C25: on /extract, when extract_text fails with an exception that is not  *)
(* one of the application's, the response has status 500 and its message    *)
(* field carries the message of that exception.                              *)
C25_OcrFailureMessageReported ==
    [][\A r \in Reqs : \A exc \in OcrExceptions :
         (/\ pc[r] \in {"proc", "call"} /\ pc'[r] = "done" /\ inp[r].ep = "extract"
          /\ ocrCalls'[r] = ocrCalls[r] + 1
          /\ exc.cls \notin ReRaised
          /\ result'[r] = ocr_failure_response(exc))
         => /\ status_code(result'[r].code) = 500
            /\ result'[r].cause = exc.msg]_vars

(* /extract answered an unexpected OCR exception with the fixed message and *)
(* the exception's text in the detail field.                                 *)
C25_OcrMessageInDetail ==
    \E r \in Reqs : \E exc \in OcrExceptions :
      /\ pc[r] = "done" /\ inp[r].ep = "extract" /\ ocrCalls[r] = 1
      /\ exc.cls \notin ReRaised
      /\ result[r].code = "OCR_ERROR" /\ result[r].cause = "Failed to process file"
      /\ result[r].detail = exc.msg

(* C28: a call the breaker rejects leaves state, failure_count and          *)
(* last_failure_time as they were: the breaker stays OPEN, the open window  *)
(* is not extended and no failure is counted.                                *)
C28_RejectionLeavesBreaker ==
    [][\A r \in Reqs :
         (pc[r] \in {"proc", "call"} /\ pc'[r] = "done" /\ result'[r] = Rejected)
         => /\ state = "OPEN" /\ state' = "OPEN"
            /\ failure_count' = failure_count
            /\ elapsed' = elapsed
            /\ recorded'[r] = 0 /\ attempt'[r] = 0]_vars

(* A request was rejected after time had passed since the last failure, and *)
(* that time still stands.                                                   *)
C28_RejectedLate ==
    \E r \in Reqs :
      /\ pc[r] = "done" /\ result[r] = Rejected
      /\ state = "OPEN" /\ elapsed = timeout /\ failure_count = failure_threshold

(* C29: a successful call resets failure_count to 0 and every recorded      *)
(* failure raises it by exactly one, so the breaker leaves CLOSED for OPEN  *)
(* only on the failure that brings the count of failures since the last     *)
(* success to failure_threshold.                                             *)
C29_OpensOnlyOnUnbrokenRun ==
    /\ [](state = "CLOSED" => failure_count < failure_threshold)
    /\ [][/\ \A r \in Reqs :
               (last'[r] = "ok" /\ pc[r] \in {"proc", "call", "sleep"} /\ pc'[r] = "set")
               => (failure_count' = 0 /\ state' = "CLOSED")
          /\ failure_count' # failure_count
               => \/ /\ failure_count' = 0
                     /\ \E r \in Reqs : last'[r] = "ok" /\ recorded'[r] = recorded[r] + 1
                  \/ /\ failure_count' = failure_count + 1
                     /\ \E r \in Reqs : last'[r] \in ErrSignals
                                        /\ recorded'[r] = recorded[r] + 1
          /\ (state = "CLOSED" /\ state' = "OPEN")
               => /\ failure_count' = failure_threshold
                  /\ failure_count' = failure_count + 1]_vars

(* With a threshold of two: a failure was recorded once, a call admitted in *)
(* CLOSED has just succeeded, and the count is back at 0.                    *)
C29_SuccessClearedCount ==
    \E r \in Reqs :
      /\ pc[r] = "set" /\ recorded[r] = 1 /\ admitted[r] = "CLOSED"
      /\ failure_threshold = 2 /\ elapsed # NoTime
      /\ failure_count = 0 /\ state = "CLOSED"

(* C30: while the breaker is OPEN and the cooldown has not elapsed, no      *)
(* request invokes the AI dependency, the remaining retry attempts of a     *)
(* request admitted before the breaker opened included.                      *)
C30_NoInvocationWhileOpen ==
    [][\A r \in Reqs :
         (state = "OPEN" /\ ~_should_attempt_reset(elapsed))
         => attempt'[r] <= attempt[r]]_vars

(* The breaker is OPEN within its cooldown while a request admitted in      *)
(* CLOSED has finished its backoff and is about to call the dependency      *)
(* again.                                                                    *)
C30_RetryDueWhileOpen ==
    \E r \in Reqs :
      /\ pc[r] = "sleep" /\ sleepLeft[r] = 0 /\ admitted[r] = "CLOSED"
      /\ attempt[r] \in 1..2
      /\ state = "OPEN" /\ ~_should_attempt_reset(elapsed)

(* The nine indicators, as the specification lists them. *)
C27_Indicators ==
    { <<"4", "2", "9">>, <<"5", "0", "0">>, <<"5", "0", "2">>, <<"5", "0", "3">>,
      <<"5", "0", "4">>,
      <<"t", "i", "m", "e", "o", "u", "t">>,
      <<"c", "o", "n", "n", "e", "c", "t", "i", "o", "n">>,
      <<"n", "e", "t", "w", "o", "r", "k">>,
      <<"q", "u", "o", "t", "a", " ", "e", "x", "c", "e", "e", "d", "e", "d">> }

(* C27: the failure classifier answers Transient exactly when the           *)
(* lower-cased error text contains one of 429, 500, 502, 503, 504, timeout, *)
(* connection, network, quota exceeded, and Permanent for every other text. *)
C27_TransientIffIndicator ==
    pureCall.op = "is_transient_error"
    => /\ pureCall.out \in BOOLEAN
       /\ pureCall.out = (\E ind \in C27_Indicators : str_contains(lower(pureCall.arg), ind))

(* A text with an indicator in upper and lower case, split over two pieces, *)
(* has been classified Transient.                                            *)
C27_MixedCaseQuotaTransient ==
    /\ pureCall.op = "is_transient_error"
    /\ pureCall.arg = <<"Q", "u", "o", "t", "a", " ", "E", "x", "c", "e", "e", "d", "e", "d">>
    /\ pureCall.out = TRUE

(* The text, once trimmed and unfenced, is the source of a JSON value. *)
C26_Parsable(t) ==
    (t.fence # "none" \/ t.lead = "") /\ t.body.t \notin {"malformed", "empty"}

(* A number, or a string that reads as one. *)
C26_Numeric(val) ==
    \/ val.t = "number"
    \/ val.t = "str" /\ Len(val.s) > 0 /\ \A i \in 1..Len(val.s) : isdigit(val.s[i])

(* C26: get_structured_data, given the answer of the dependency, returns a  *)
(* record with every required field present and subtotal, tax, total and    *)
(* the item amounts numbers, or raises and returns no record: an answer     *)
(* that does not parse raises the parse error with the decoder's            *)
(* diagnostic, an answer that parses but lacks a required field or has a    *)
(* non-numeric subtotal, tax or total raises the validation error.          *)
C26_AllOrNothing ==
    pureCall.op = "get_structured_data"
    => LET t == pureCall.arg
           o == pureCall.out
       IN /\ o.kind \in {"record", "error"}
          /\ o.kind = "error" => (o.rec = NoRecord /\ o.error # "")
          /\ o.kind = "record"
               => /\ o.error = ""
                  /\ o.rec.t = "InvoiceData"
                  /\ o.rec.v.invoice_number.t = "str" /\ o.rec.v.vendor_name.t = "str"
                  /\ \A f \in {"subtotal", "tax", "total"} : o.rec.v[f].t = "number"
                  /\ o.rec.v.items.t = "list"
                  /\ \A i \in 1..Len(o.rec.v.items.v) :
                       \A f \in {"quantity", "unit_price", "total_price"} :
                          o.rec.v.items.v[i].v[f].t = "number"
                  /\ C26_Parsable(t) /\ t.body.t = "dict"
                  /\ \A f \in {"subtotal", "tax", "total"} :
                       /\ C26_Numeric(t.body.v[f])
                       /\ t.body.v[f].t = "number" => o.rec.v[f] = t.body.v[f]
                  /\ o.rec.v.invoice_number = t.body.v.invoice_number
                  /\ o.rec.v.vendor_name = t.body.v.vendor_name
          /\ (~C26_Parsable(t) /\ ~is_blank(t))
               => /\ o.kind = "error"
                  /\ o.error = "Failed to parse structured data from AI response"
                  /\ Len(o.detail) = 2 /\ o.detail[1] = "JSON parse error: "
                  /\ o.detail[2] # ""
          /\ (/\ C26_Parsable(t)
              /\ \/ t.body.t # "dict"
                 \/ t.body.v.invoice_number.t = "missing"
                 \/ t.body.v.vendor_name.t = "missing"
                 \/ \E f \in {"subtotal", "tax", "total"} : ~C26_Numeric(t.body.v[f]))
               => /\ o.kind = "error"
                  /\ o.error = "AI response data failed validation"

(* A fenced answer that parses and is complete but for a total that is not  *)
(* numeric has been refused as a whole.                                      *)
C26_NonNumericTotalRefused ==
    /\ pureCall.op = "get_structured_data"
    /\ pureCall.arg.fence = "fence json"
    /\ pureCall.arg.body.t = "dict"
    /\ pureCall.arg.body.v.invoice_number.t = "str"
    /\ pureCall.arg.body.v.vendor_name.t = "str"
    /\ pureCall.arg.body.v.subtotal.t = "number"
    /\ pureCall.arg.body.v.tax.t = "number"
    /\ pureCall.arg.body.v.total = PyStr(invalid_number)
    /\ pureCall.out = Raised("AI response data failed validation",
                             <<"Validation error: ", "validation_error">>)

(* C31: in every reachable state of the breaker, under any interleaving of  *)
(* calls: when state is OPEN or HALF_OPEN, failure_count is at least        *)
(* failure_threshold and last_failure_time is set; failure_count is never   *)
(* negative.                                                                 *)
C31_OpenImpliesThresholdReached ==
    /\ state \in {"CLOSED", "OPEN", "HALF_OPEN"}
    /\ failure_count >= 0
    /\ state \in {"OPEN", "HALF_OPEN"}
         => (failure_count >= failure_threshold /\ elapsed # NoTime)

(* With a threshold of two, a trial call is in its backoff sleep with the   *)
(* breaker HALF_OPEN while another request is in its own call.               *)
C31_HalfOpenWithOverlap ==
    /\ failure_threshold = 2 /\ state = "HALF_OPEN" /\ failure_count >= 2
    /\ \E r \in Reqs : \E q \in Reqs \ {r} :
         /\ pc[r] = "sleep" /\ admitted[r] = "OPEN"
         /\ pc[q] = "sleep" /\ admitted[q] = "CLOSED"

(* C32: whenever no breaker-guarded call is in flight the breaker is CLOSED *)
(* or OPEN, never HALF_OPEN: a call that moved it to HALF_OPEN moves it on  *)
(* before it ends, however it ends.                                          *)
C32_HalfOpenOnlyDuringCall ==
    (\A q \in Reqs : ~InBreaker(q)) => state \in {"CLOSED", "OPEN"}

(* A trial call that moved the breaker to HALF_OPEN is suspended in its     *)
(* backoff sleep, where it can be cancelled.                                 *)
C32_TrialCallSuspended ==
    \E r \in Reqs :
      /\ pc[r] = "sleep" /\ admitted[r] = "OPEN" /\ state = "HALF_OPEN"
      /\ \A q \in Reqs \ {r} : ~InBreaker(q)

(* Error messages of a request whose AI call answered, and whose answer was *)
(* whitespace only, not parsable, or not valid for the schema.              *)
C33_ShapeFailures ==
    {"Empty response from AI service", "Failed to parse structured data",
     "AI response data failed validation"}

(* C33: a request whose AI call was answered but which fails because the    *)
(* answer is empty, unparsable or schema-invalid is recorded by the breaker *)
(* as a success (failure_count 0, state CLOSED) and never increments        *)
(* failure_count.                                                            *)
C33_AnsweredCallIsSuccess ==
    [][\A r \in Reqs :
         /\ (pc[r] # "done" /\ pc'[r] = "done"
             /\ result'[r].cause \in C33_ShapeFailures \cup {EmptyResponse})
            => /\ failure_count' = 0 /\ state' = "CLOSED"
               /\ recorded'[r] = recorded[r] + 1 /\ recordedIn'[r] = recordedIn[r]
         /\ (attempt'[r] > attempt[r] /\ last'[r] = EmptyResponse)
            => failure_count' <= failure_count]_vars

(* C33, for the answers that carry text: whitespace only, unparsable or     *)
(* schema-invalid.                                                           *)
C33_TextAnswerIsSuccess ==
    [][\A r \in Reqs :
         (pc[r] # "done" /\ pc'[r] = "done" /\ result'[r].cause \in C33_ShapeFailures)
         => /\ failure_count' = 0 /\ state' = "CLOSED"
            /\ recorded'[r] = recorded[r] + 1 /\ recordedIn'[r] = recordedIn[r]]_vars

(* The dependency has answered twice without text; the third attempt of the *)
(* same call is due.                                                         *)
C33_TwoEmptyAnswers ==
    \E r \in Reqs :
      /\ pc[r] = "sleep" /\ attempt[r] = 2 /\ last[r] = EmptyResponse
      /\ recorded[r] = 0

(* C34: a request that ends in an error has written nothing to the cache:   *)
(* no step of a request that ends with an error object changes the cache.   *)
C34_ErrorMeansNoCacheWrite ==
    [][\A r \in Reqs :
         (pc[r] # "done" /\ pc'[r] = "done" /\ result'[r].kind = "err")
         => cache' = cache]_vars

(* An /extract-n8n request is about to store the parsed answer, which lacks *)
(* a required field, in an empty cache slot.                                 *)
C34_InvalidAnswerAwaitingStore ==
    \E r \in Reqs :
      /\ pc[r] = "set" /\ inp[r].ep = "n8n" /\ ~SchemaValid(data[r])
      /\ cache[KeyOf(r)] = NoValue /\ backend = "up"

(* C34, for /extract and /extract-simple. *)
C34_ErrorMeansNoCacheWriteValidated ==
    [][\A r \in Reqs :
         (pc[r] # "done" /\ pc'[r] = "done" /\ result'[r].kind = "err"
          /\ inp'[r].ep # "n8n")
         => cache' = cache]_vars

(* The steps a request can take from one position to the next: lookup after *)
(* the fingerprint, OCR and the AI call after a miss, retries, the store    *)
(* after a validated answer, the return after the store; from every         *)
(* position the request can end.                                             *)
C35_Order ==
    {<<"idle", "get">>, <<"get", "proc">>, <<"proc", "sleep">>, <<"proc", "set">>,
     <<"sleep", "sleep">>, <<"sleep", "set">>, <<"set", "done">>,
     <<"idle", "done">>, <<"get", "done">>, <<"proc", "done">>, <<"sleep", "done">>,
     <<"done", "idle">>}

(* C35: on a cache miss a request goes through lookup, OCR, AI call,        *)
(* validation, store and return in that order: the AI dependency is invoked *)
(* only after the one OCR call, the store only after a validated answer,    *)
(* and once the request has failed none of its steps runs.                   *)
C35_StepsInOrder ==
    /\ [](\A r \in Reqs :
            /\ ocrCalls[r] \in {0, 1}
            /\ pc[r] \in {"idle", "get", "proc"} => (ocrCalls[r] = 0 /\ attempt[r] = 0)
            /\ attempt[r] >= 1 => ocrCalls[r] = 1
            /\ pc[r] = "sleep" => (attempt[r] \in 1..2 /\ last[r] \in ErrSignals)
            /\ pc[r] = "set"
                 => /\ attempt[r] >= 1 /\ last[r] = "ok" /\ ocrCalls[r] = 1
                    /\ inp[r].ep # "n8n" => data[r].inv \notin {"absent", "none"}
            /\ (pc[r] = "done" /\ result[r].kind = "ok" /\ attempt[r] >= 1)
                 => last[r] = "ok")
    /\ [][\A r \in Reqs :
            /\ pc'[r] # pc[r] => <<pc[r], pc'[r]>> \in C35_Order
            /\ ocrCalls'[r] # ocrCalls[r]
                 => (pc[r] = "proc" /\ ocrCalls'[r] = 1) \/ (pc[r] = "done" /\ ocrCalls'[r] = 0)
            /\ attempt'[r] > attempt[r] => (pc[r] \in {"proc", "sleep"} /\ ocrCalls'[r] = 1)
            /\ (pc[r] = "done" /\ pc'[r] = "done")
                 => /\ result'[r] = result[r] /\ attempt'[r] = attempt[r]
                    /\ ocrCalls'[r] = ocrCalls[r] /\ recorded'[r] = recorded[r]
            /\ (pc[r] = "done" /\ result[r].kind = "err")
                 => /\ pc'[r] \in {"done", "idle"}
                    /\ (\A q \in Reqs \ {r} : pc'[q] = pc[q]) => cache' = cache]_vars

(* An /extract request whose first attempt failed and whose second          *)
(* succeeded stands before the cache store, after one OCR call.              *)
C35_BeforeStoreAfterRetry ==
    \E r \in Reqs :
      /\ pc[r] = "set" /\ inp[r].ep = "extract"
      /\ ocrCalls[r] = 1 /\ attempt[r] = 2 /\ Len(waits[r]) = 1 /\ last[r] = "ok"
      /\ data[r].inv = "INV-1"

(* C36: on /extract every upload that passed the file-type check reaches    *)
(* OCR in a temporary file with the extension .pdf, .png or .jpg, and OCR   *)
(* never rejects it as an unsupported format.                                *)
C36_AcceptedUploadHasExtension ==
    \A r \in Reqs :
      inp[r].ep = "extract"
      => /\ pc[r] = "proc" => Suffix(inp[r].ep, inp[r].ctype) \in {".pdf", ".png", ".jpg"}
         /\ pc[r] = "done" => result[r].cause # "Unsupported file format"

(* An /extract upload sent with the transport content type                   *)
(* multipart/form-data passed the file-type check by its file name and      *)
(* missed the cache: the temporary file and OCR are next.                    *)
C36_MultipartUploadAccepted ==
    \E r \in Reqs :
      /\ inp[r].ep = "extract" /\ inp[r].ctype = "multipart/form-data"
      /\ pc[r] = "proc" /\ ocrCalls[r] = 0

(* C37: when a step of a request fails with an exception that is not one of *)
(* the application's, neither the message nor the detail of the error       *)
(* object the caller receives contains the text of that exception.          *)
C37_NoInternalTextInResponse ==
    \A r \in Reqs : \A exc \in OcrExceptions :
      (pc[r] = "done" /\ exc.cls \notin ReRaised)
      => (result[r].cause # exc.msg /\ result[r].detail # exc.msg)

(* An /extract upload declared as PDF missed the cache; the temporary file  *)
(* and extract_text, which can raise any exception, are next.               *)
C37_BeforeOcrOnExtract ==
    \E r \in Reqs :
      /\ inp[r].ep = "extract" /\ inp[r].ctype = "application/pdf"
      /\ pc[r] = "proc" /\ ocrCalls[r] = 0 /\ result[r] = NoResult

(* C38: every request that has arrived reaches its end, and it does so      *)
(* after at most one OCR call, at most three invocations of the AI          *)
(* dependency and at most two backoff waits.                                 *)
C38_EveryRequestEnds ==
    /\ [](\A r \in Solo :
            /\ ocrCalls[r] <= 1 /\ attempt[r] <= 3 /\ Len(waits[r]) <= 2
            /\ Len(waits[r]) <= Max(0, attempt[r] - 1) + (IF pc[r] = "sleep" THEN 1 ELSE 0))
    /\ \A r \in Solo : (pc[r] \in {"get", "proc", "sleep", "set"}) ~> (pc[r] = "done")

(* A request has ended after one OCR call, three attempts and two waits.    *)
C38_EndedAfterThreeAttempts ==
    \E r \in Solo :
      /\ pc[r] = "done" /\ ocrCalls[r] = 1 /\ attempt[r] = 3 /\ Len(waits[r]) = 2
      /\ result[r].code = "AI_SERVICE_ERROR"

(* An invocation of the AI dependency that is made returns text. *)
C39_DependencySucceeds ==
    \A r \in Solo : attempt'[r] > attempt[r] => last'[r] = "ok"

(* A request reaches the breaker: it is rejected or its call is admitted. *)
C39_BreakerCalled ==
    \E r \in Solo : pc[r] = "proc" /\ (result'[r] = Rejected \/ attempt'[r] = 1)

(* C39: the breaker does not stay OPEN forever: if time keeps passing, from *)
(* some point on every invocation of the AI dependency succeeds, and        *)
(* requests keep reaching the breaker, then from some point on the breaker  *)
(* is CLOSED with failure_count 0 and no request is rejected.               *)
C39_BreakerRecovers ==
    (/\ SF_vars(Tick)
     /\ <>[][C39_DependencySucceeds]_vars
     /\ []<><<C39_BreakerCalled>>_vars)
    => <>[](/\ state = "CLOSED" /\ failure_count = 0
            /\ \A r \in Solo : result[r] # Rejected)

(* A call that found the breaker OPEN after the cooldown was admitted, its  *)
(* first attempt succeeded, and the breaker is CLOSED with count 0.         *)
C39_ClosedByFirstTrial ==
    \E r \in Solo :
      /\ admitted[r] = "OPEN" /\ attempt[r] = 1 /\ last[r] = "ok" /\ pc[r] = "set"
      /\ recorded[r] = 1
      /\ state = "CLOSED" /\ failure_count = 0

====
